---- MODULE Spec2Model ----
(***************************************************************************)
(* The POST /mcp request handler of src/src/index.ts: session resolution,  *)
(* method dispatch (initialize, callTool, terminate), the two tool         *)
(* handlers with their provider call as the one suspension point, and the  *)
(* catch-all that turns failures into error envelopes.                     *)
(***************************************************************************)
EXTENDS Integers, Sequences, FiniteSets, TLC

VARIABLES
    sessions,          \* the session map: own keys of `sessions` -> record
    protoInitialized,  \* Object.prototype.initialized has been set to true
    uuidCount,         \* number of randomUUID() results handed out so far
    inflight,          \* per connection: free, arrived, or awaiting the provider
    last               \* the exchange completed most recently on the wire

vars == <<sessions, protoInitialized, uuidCount, inflight, last>>

(***************************************************************************)
(* Bounds of the model.                                                    *)
(***************************************************************************)
NumSlots == 2      \* requests that can be in flight at the same time
MaxUuid == 2       \* randomUUID() results available
MaxResults == 2    \* longest result list the provider returns

(***************************************************************************)
(* JavaScript / JSON values, tagged by type.  An object is a function from *)
(* the keys it has to their values; a key that is absent is not in the     *)
(* domain.                                                                 *)
(***************************************************************************)
Undef == [t |-> "undefined"]
Null == [t |-> "null"]
Num(n) == [t |-> "number", v |-> n]
Str(s) == [t |-> "string", v |-> s]
Obj(f) == [t |-> "object", f |-> f]
Arr(s) == [t |-> "array", s |-> s]

\* ToBoolean, as used by `||` and `!`.
Truthy(v) ==
    CASE v.t \in {"undefined", "null"} -> FALSE
      [] v.t = "number" -> v.v # 0
      [] v.t = "string" -> v.v # ""
      [] OTHER -> TRUE

\* Property read o[k]: undefined for a key the value does not have.
Prop(o, k) == IF o.t = "object" /\ k \in DOMAIN o.f THEN o.f[k] ELSE Undef

\* `const { a, b } = x` throws a TypeError when x is undefined or null.
Destructurable(x) == x.t \notin {"undefined", "null"}

\* Template-literal conversion `${v}`.
ToStr(v) ==
    CASE v.t = "string" -> v.v
      [] v.t = "number" -> ToString(v.v)
      [] v.t = "undefined" -> "undefined"
      [] v.t = "null" -> "null"
      [] v.t = "array" -> ""
      [] OTHER -> "[object Object]"

\* JSON.stringify as res.json applies it: a key whose value is undefined is
\* left out of the object, undefined inside an array becomes null.
RECURSIVE ToJson(_)
ToJson(v) ==
    CASE v.t = "object" ->
           Obj([k \in {x \in DOMAIN v.f : v.f[x].t # "undefined"} |-> ToJson(v.f[k])])
      [] v.t = "array" ->
           Arr([i \in DOMAIN v.s |->
                  IF v.s[i].t = "undefined" THEN Null ELSE ToJson(v.s[i])])
      [] OTHER -> v

(***************************************************************************)
(* The session map.  `sessions` is a plain object literal, so sessions[k]  *)
(* is a property read through the prototype chain: for a key the object    *)
(* does not own but Object.prototype provides, the read yields the         *)
(* inherited (truthy) value.                                               *)
(***************************************************************************)
InheritedKeys == {"__proto__"}

Uuid(n) == "uuid-" \o ToString(n)

Lookup(s, k) ==
    IF k \in DOMAIN s THEN "own"
    ELSE IF k \in InheritedKeys THEN "inherited"
    ELSE "undefined"

Put(s, k, rec) == [x \in DOMAIN s \cup {k} |-> IF x = k THEN rec ELSE s[x]]

\* Variant: only a session that completed the handshake is removed.
DeleteInitializedOnly(s, k) ==
    IF k \in DOMAIN s /\ s[k].initialized THEN [x \in DOMAIN s \ {k} |-> s[x]] ELSE s

Delete(s, k) == [x \in DOMAIN s \ {k} |-> s[x]]

\* Variant: a new identifier is generated whatever the caller supplied.
SessionIdAlwaysFresh(hdr, n) == Uuid(n + 1)

\* req.headers['mcp-session-id'] as string || randomUUID()
SessionId(hdr, n) == IF Truthy(hdr) THEN hdr.v ELSE Uuid(n + 1)

\* Variant: the record is written on every request, known session or not.
ResolveAlways(s, sid) == Put(s, sid, [initialized |-> FALSE])

\* if (!sessions[sessionId]) sessions[sessionId] = { initialized: false }
Resolve(s, sid) ==
    IF Lookup(s, sid) = "undefined" THEN Put(s, sid, [initialized |-> FALSE]) ELSE s

\* sessions[sessionId].initialized = true, on the value the read yields
MarkInitialized(s, sid) ==
    IF Lookup(s, sid) = "own" THEN [s EXCEPT ![sid].initialized = TRUE] ELSE s

(***************************************************************************)
(* The zod schemas and the provider calls built from the parsed values.    *)
(***************************************************************************)
GeocodeValid(p) == p.t = "object" /\ Prop(p, "address").t = "string"

LocationValid(l) ==
    l.t = "object" /\ Prop(l, "lat").t = "number" /\ Prop(l, "lng").t = "number"

PlacesValid(p) ==
    /\ p.t = "object"
    /\ Prop(p, "query").t = "string"
    /\ Prop(p, "location").t = "undefined" \/ LocationValid(Prop(p, "location"))
    /\ Prop(p, "radius").t \in {"undefined", "number"}

DefaultLocation == Obj([lat |-> Num(0), lng |-> Num(0)])

DefaultRadius == 5000

\* location: location || { lat: 0, lng: 0 }
CallLocation(p) ==
    LET l == Prop(p, "location")
    IN IF Truthy(l)
       THEN Obj([lat |-> Prop(l, "lat"), lng |-> Prop(l, "lng")])
       ELSE DefaultLocation

\* radius: radius || 5000
CallRadius(p) ==
    LET r == Prop(p, "radius") IN IF Truthy(r) THEN r ELSE Num(DefaultRadius)

GeocodeCall(p) == [api |-> "geocode", address |-> Prop(p, "address")]

PlacesCall(p) ==
    [api |-> "placesNearby", location |-> CallLocation(p),
     radius |-> CallRadius(p), keyword |-> Prop(p, "query")]

NoCall == [api |-> "none"]

(***************************************************************************)
(* Response envelopes, as written by res.json / res.status(500).json.      *)
(***************************************************************************)
InternalError == -32603

ToolDescriptors ==
    Arr(<<Obj([name |-> Str("geocode"),
               description |-> Str("Convert an address to coordinates"),
               parameters |-> Str("geocodeSchema")]),
          Obj([name |-> Str("places-search"),
               description |-> Str("Search for places using Google Places API"),
               parameters |-> Str("placesSearchSchema")])>>)

Success(result, id) ==
    [status |-> 200,
     body |-> ToJson(Obj([jsonrpc |-> Str("2.0"), result |-> result, id |-> id]))]

\* What a `throw new Error(message)` (or a library's Error) hands to the catch.
Thrown(message) == [isError |-> TRUE, message |-> message]

\* error instanceof Error ? error.message : 'Internal server error'
CatchMessage(e) == IF e.isError THEN e.message ELSE "Internal server error"

\* Variant: the catch block answers with a null id.
FailureNullId(e, id) ==
    [status |-> 500,
     body |-> ToJson(Obj([jsonrpc |-> Str("2.0"),
                          error |-> Obj([code |-> Num(InternalError),
                                         message |-> Str(CatchMessage(e))]),
                          id |-> Null]))]

\* The catch block: res.status(500).json({ jsonrpc, error: { code, message }, id })
Failure(e, id) ==
    [status |-> 500,
     body |-> ToJson(Obj([jsonrpc |-> Str("2.0"),
                          error |-> Obj([code |-> Num(InternalError),
                                         message |-> Str(CatchMessage(e))]),
                          id |-> id]))]

InitializeResult(sid) ==
    Obj([server |-> Obj([name |-> Str("google-maps-mcp"), version |-> Str("1.0.0")]),
         session |-> Obj([id |-> Str(sid)]),
         tools |-> ToolDescriptors])

\* The reply of the geocode branch to what the provider call produced.
GeocodeReply(out, id) ==
    IF ~out.ok THEN Failure(out.error, id)
    ELSE IF Len(out.results) = 0 THEN Failure(Thrown("No results found"), id)
    ELSE IF ~Destructurable(Prop(out.results[1], "geometry"))
    THEN Failure(Thrown("TypeError: reading 'location'"), id)
    ELSE LET result == out.results[1]
         IN Success(
              Obj([content |-> Arr(<<
                Obj([type |-> Str("text"),
                     text |-> Str("Found location: "
                                  \o ToStr(Prop(result, "formatted_address")))]),
                Obj([type |-> Str("json"),
                     data |-> Obj([
                       location |-> Prop(Prop(result, "geometry"), "location"),
                       formatted_address |-> Prop(result, "formatted_address"),
                       place_id |-> Prop(result, "place_id")])])>>)]),
              id)

\* place => ({ name, location: place.geometry?.location, place_id, types, vicinity })
PlaceRecord(place) ==
    Obj([name |-> Prop(place, "name"),
         location |-> Prop(Prop(place, "geometry"), "location"),
         place_id |-> Prop(place, "place_id"),
         types |-> Prop(place, "types"),
         vicinity |-> Prop(place, "vicinity")])

\* The reply of the places-search branch to what the provider call produced.
PlacesReply(out, id) ==
    IF ~out.ok THEN Failure(out.error, id)
    ELSE Success(
           Obj([content |-> Arr(<<
             Obj([type |-> Str("text"),
                  text |-> Str("Found " \o ToString(Len(out.results)) \o " places")]),
             Obj([type |-> Str("json"),
                  data |-> Arr([i \in DOMAIN out.results |->
                                  PlaceRecord(out.results[i])])])>>)]),
           id)

(***************************************************************************)
(* Method and tool routing of the handler body.                            *)
(***************************************************************************)
Route(body) ==
    LET method == Prop(body, "method")
        params == Prop(body, "params")
        name == Prop(params, "name")
        parameters == Prop(params, "parameters")
    IN IF method = Str("initialize") THEN "initialize"
       ELSE IF method = Str("callTool") THEN
            IF ~Destructurable(params) THEN "typeError"
            ELSE IF name = Str("geocode") THEN
                 IF GeocodeValid(parameters) THEN "geocode" ELSE "zodError"
            ELSE IF name = Str("places-search") THEN
                 IF PlacesValid(parameters) THEN "places-search" ELSE "zodError"
            ELSE "unknownTool"
       ELSE IF method = Str("terminate") THEN "terminate"
       ELSE "unknownMethod"

Suspends(route) == route \in {"geocode", "places-search"}

\* The provider call a tool branch issues before it suspends.
ProviderCall(route, body) ==
    LET parameters == Prop(Prop(body, "params"), "parameters")
    IN IF route = "geocode" THEN GeocodeCall(parameters) ELSE PlacesCall(parameters)

\* The response of a branch that answers without calling the provider.
SyncReply(route, body, sid) ==
    LET id == Prop(body, "id")
    IN CASE route = "initialize" -> Success(InitializeResult(sid), id)
         [] route = "terminate" -> Success(Null, id)
         [] route = "typeError" ->
              Failure(Thrown("TypeError: Cannot destructure property 'name'"), id)
         [] route = "zodError" -> Failure(Thrown("ZodError"), id)
         [] route = "unknownTool" ->
              Failure(Thrown("Unknown tool: "
                             \o ToStr(Prop(Prop(body, "params"), "name"))), id)
         [] OTHER ->
              Failure(Thrown("Unknown method: " \o ToStr(Prop(body, "method"))), id)

\* The response of a tool branch once its provider call has settled.
AsyncReply(call, out, id) ==
    IF call.api = "geocode" THEN GeocodeReply(out, id) ELSE PlacesReply(out, id)

\* The session map after the synchronous part of the handler.
SessionsAfter(s, sid, route) ==
    CASE route = "initialize" -> MarkInitialized(Resolve(s, sid), sid)
      [] route = "terminate" -> Delete(Resolve(s, sid), sid)
      [] OTHER -> Resolve(s, sid)

(***************************************************************************)
(* State.                                                                  *)
(***************************************************************************)
Slots == 1 .. NumSlots

NoRequest == [hdr |-> Undef, body |-> Undef]

Free == [stage |-> "free", req |-> NoRequest, sid |-> "", call |-> NoCall]

Init ==
    /\ sessions = [k \in {} |-> [initialized |-> FALSE]]
    /\ protoInitialized = FALSE
    /\ uuidCount = 0
    /\ inflight = [r \in Slots |-> Free]
    /\ last = [done |-> FALSE, req |-> NoRequest, sid |-> "", sent |-> <<>>]

\* The request on connection r is over: `sent` is what the handler wrote.
Finish(r, req, sid, sent) ==
    /\ inflight' = [inflight EXCEPT ![r] = Free]
    /\ last' = [done |-> TRUE, req |-> req, sid |-> sid, sent |-> sent]

\* Variant: a provider call made synchronously blocks the event loop.
CanRunWhenIdle(r) == \A q \in Slots : inflight[q].stage # "awaiting"

\* The event loop runs the handler of a parsed request whatever else is
\* suspended on a provider call.
CanRun(r) == TRUE

(***************************************************************************)
(* The handler from its entry to its first response or to its `await`.     *)
(***************************************************************************)
Handle(r, req) ==
    /\ CanRun(r)
    /\ IF ~Destructurable(req.body)
       THEN \* const { method, params, id } = req.body throws before the try
            /\ Finish(r, req, "", <<>>)
            /\ UNCHANGED <<sessions, protoInitialized, uuidCount>>
       ELSE LET sid == SessionId(req.hdr, uuidCount)
                route == Route(req.body)
            IN /\ uuidCount' = IF Truthy(req.hdr) THEN uuidCount ELSE uuidCount + 1
               /\ sessions' = SessionsAfter(sessions, sid, route)
               /\ protoInitialized' =
                    (protoInitialized
                       \/ (route = "initialize" /\ Lookup(sessions, sid) = "inherited"))
               /\ IF Suspends(route)
                  THEN /\ inflight' = [inflight EXCEPT ![r] =
                            [stage |-> "awaiting", req |-> req, sid |-> sid,
                             call |-> ProviderCall(route, req.body)]]
                       /\ UNCHANGED last
                  ELSE Finish(r, req, sid, <<SyncReply(route, req.body, sid)>>)

\* A request arrives on the first free connection and its handler runs.
Request(r, req) ==
    /\ inflight[r].stage = "free"
    /\ \A q \in 1 .. r - 1 : inflight[q].stage # "free"
    /\ Truthy(req.hdr) \/ ~Destructurable(req.body) \/ uuidCount < MaxUuid
    /\ Handle(r, req)

\* A request arrives on the first free connection; its handler has not run yet.
Arrive(r, req) ==
    /\ inflight[r].stage = "free"
    /\ \A q \in 1 .. r - 1 : inflight[q].stage # "free"
    /\ inflight' = [inflight EXCEPT ![r] =
                      [stage |-> "arrived", req |-> req, sid |-> "", call |-> NoCall]]
    /\ UNCHANGED <<sessions, protoInitialized, uuidCount, last>>

\* The event loop runs the handler of the request that arrived on connection r.
Run(r) ==
    /\ inflight[r].stage = "arrived"
    /\ Handle(r, inflight[r].req)

\* Variant: the handler resolves its session again when it resumes.
ProviderReturnResolving(r, out) ==
    /\ inflight[r].stage = "awaiting"
    /\ sessions' = Resolve(sessions, inflight[r].sid)
    /\ UNCHANGED <<protoInitialized, uuidCount>>
    /\ Finish(r, inflight[r].req, inflight[r].sid,
              <<AsyncReply(inflight[r].call, out, Prop(inflight[r].req.body, "id"))>>)

\* The provider call of the request suspended on connection r settles and
\* the handler resumes after its `await`.
ProviderReturn(r, out) ==
    /\ inflight[r].stage = "awaiting"
    /\ UNCHANGED <<sessions, protoInitialized, uuidCount>>
    /\ Finish(r, inflight[r].req, inflight[r].sid,
              <<AsyncReply(inflight[r].call, out, Prop(inflight[r].req.body, "id"))>>)

(***************************************************************************)
(* Requests and provider results the environment can produce.              *)
(***************************************************************************)
Body(method, params, id) ==
    ToJson(Obj([method |-> method, params |-> params, id |-> id]))

ToolParams(name, parameters) ==
    ToJson(Obj([name |-> name, parameters |-> parameters]))

Ids == {Undef, Null, Num(7)}

Locations == {Undef, Obj([lat |-> Num(48), lng |-> Num(2)])}

Radii == {Undef, Num(0), Num(1000)}

GeocodeOk == ToolParams(Str("geocode"), Obj([address |-> Str("1600 Amphitheatre")]))

GeocodeBad == ToolParams(Str("geocode"), Obj([address |-> Num(1600)]))

PlacesOk(location, radius) ==
    ToolParams(Str("places-search"),
               ToJson(Obj([query |-> Str("coffee"), location |-> location,
                           radius |-> radius])))

PlacesBad == ToolParams(Str("places-search"), Obj([radius |-> Num(1000)]))

Teleport == ToolParams(Str("teleport"), Undef)

\* Session traffic: one body per route, on a caller's own token or on a key
\* that Object.prototype provides.
SessionBodies ==
    {Body(Str(m), Undef, Num(7)) : m \in {"initialize", "terminate", "ping"}}
      \cup {Body(Str("callTool"), p, Num(7)) : p \in {GeocodeOk, Teleport}}

SessionRequests ==
    {[hdr |-> h, body |-> b] :
       h \in {Str("tokA"), Str("tokB"), Str("__proto__")}, b \in SessionBodies}

\* Session resolution: the mcp-session-id header is absent, empty, a token of
\* the caller, an inherited key, or an identifier the server issued earlier.
Headers ==
    {Undef, Str(""), Str("tokA"), Str("__proto__")}
      \cup {Str(Uuid(n)) : n \in 1 .. uuidCount}

ResolutionBodies ==
    {Body(Str(m), Undef, Num(7)) : m \in {"initialize", "terminate", "ping"}}
      \cup {Body(Str("callTool"), GeocodeOk, Num(7))}

ResolutionRequests ==
    {[hdr |-> h, body |-> b] : h \in Headers, b \in ResolutionBodies}

\* Every failure class and every parameter shape of a tool call.
ToolBodies ==
    {Undef, Arr(<<>>)}
      \cup {Body(m, Undef, Num(7)) :
              m \in {Undef, Str("initialize"), Str("terminate"), Str("ping"),
                     Str("callTool")}}
      \cup {Body(Str("callTool"), p, Num(7)) :
              p \in {Null, GeocodeOk, GeocodeBad, PlacesBad, Teleport}
                      \cup {PlacesOk(l, rad) : l \in Locations, rad \in Radii}}

ToolRequests == {[hdr |-> Str("tokA"), body |-> b] : b \in ToolBodies}

\* Every route under each kind of request id.
IdBodies ==
    {Body(Str(m), Undef, id) : m \in {"initialize", "terminate", "ping"}, id \in Ids}
      \cup {Body(Str("callTool"), p, id) : p \in {GeocodeOk, Teleport}, id \in Ids}

IdRequests == {[hdr |-> Str("tokA"), body |-> b] : b \in IdBodies}

\* Traffic of the liveness check.
LiveRequests ==
    {[hdr |-> Str("tokA"), body |-> b] :
       b \in {Body(Str(m), Undef, Num(7)) : m \in {"initialize", "terminate", "ping"}}
               \cup {Body(Str("callTool"), GeocodeOk, Num(7))}}

GeocodeItem ==
    Obj([formatted_address |-> Str("1600 Amphitheatre Pkwy, Mountain View"),
         geometry |-> Obj([location |-> Obj([lat |-> Num(37), lng |-> Num(-122)])]),
         place_id |-> Str("g1")])

PlaceItem(withGeometry) ==
    ToJson(Obj([name |-> Str("Cafe"),
                geometry |-> IF withGeometry
                             THEN Obj([location |-> Obj([lat |-> Num(48),
                                                         lng |-> Num(2)])])
                             ELSE Undef,
                place_id |-> Str("p1"),
                types |-> Arr(<<Str("cafe")>>),
                vicinity |-> Str("Main St")]))

Returned(results) == [ok |-> TRUE, results |-> results, error |-> Thrown("")]

Rejected(e) == [ok |-> FALSE, results |-> <<>>, error |-> e]

SeqsUpTo(S, n) == UNION {[1 .. k -> S] : k \in 0 .. n}

Rejections ==
    {Rejected(Thrown("Request failed with status code 403")),
     Rejected([isError |-> FALSE, message |-> ""])}

Outcomes(api) ==
    Rejections \cup
      {Returned(s) : s \in SeqsUpTo(IF api = "geocode" THEN {GeocodeItem}
                                    ELSE {PlaceItem(TRUE), PlaceItem(FALSE)},
                                    MaxResults)}

SessionOutcomes ==
    {Rejected(Thrown("Request failed with status code 403")),
     Returned(<<>>), Returned(<<GeocodeItem>>)}

(***************************************************************************)
(* Specifications: the same handler under different families of requests.  *)
(***************************************************************************)
\* Sessions under concurrent requests.
Next ==
    \E r \in Slots :
       \/ \E req \in SessionRequests : Request(r, req)
       \/ \E out \in SessionOutcomes : ProviderReturn(r, out)

Spec == Init /\ [][Next]_vars

\* Session resolution with generated identifiers, one request at a time.
NextResolution ==
    \/ \E req \in ResolutionRequests : Request(1, req)
    \/ \E out \in SessionOutcomes : ProviderReturn(1, out)

ResolutionSpec == Init /\ [][NextResolution]_vars

\* Every request shape and provider result, one request at a time.
NextTools ==
    \/ \E req \in ToolRequests : Request(1, req)
    \/ \E out \in Outcomes(inflight[1].call.api) : ProviderReturn(1, out)

ToolSpec == Init /\ [][NextTools]_vars

\* Request ids under concurrent requests.
NextIds ==
    \E r \in Slots :
       \/ \E req \in IdRequests : Request(r, req)
       \/ \E out \in SessionOutcomes : ProviderReturn(r, out)

IdSpec == Init /\ [][NextIds]_vars

\* Arrival and handling as separate steps: the event loop eventually runs the
\* handler of every request that has arrived; nothing obliges the provider to
\* answer.
NextLive ==
    \E r \in Slots :
       \/ \E req \in LiveRequests : Arrive(r, req)
       \/ Run(r)
       \/ \E out \in SessionOutcomes : ProviderReturn(r, out)

LiveSpec == Init /\ [][NextLive]_vars /\ \A r \in Slots : WF_vars(Run(r))

(***************************************************************************)
(* Reading what went over the wire.                                        *)
(***************************************************************************)
HasKey(o, k) == o.t = "object" /\ k \in DOMAIN o.f

IsSuccess(resp) ==
    /\ resp.status = 200
    /\ HasKey(resp.body, "result")
    /\ ~HasKey(resp.body, "error")

IsError(resp) ==
    /\ resp.status = 500
    /\ HasKey(resp.body, "error")
    /\ ~HasKey(resp.body, "result")
    /\ Prop(Prop(resp.body, "error"), "code") = Num(-32603)

Method(req) == Prop(req.body, "method")

ToolName(req) == Prop(Prop(req.body, "params"), "name")

\* The last exchange answered a request of this method with one envelope.
Answered(method) ==
    /\ last.done
    /\ Method(last.req) = Str(method)
    /\ Len(last.sent) = 1

(***************************************************************************)
(* C4.  A terminate request is always answered with a success envelope     *)
(* whose result is null, and when it returns the session map holds no      *)
(* record under the resolved session identifier: whether the session       *)
(* existed, had just been terminated, or was created by this very request. *)
(***************************************************************************)
C4_TerminateRemovesSession ==
    [][\A r \in Slots : \A req \in SessionRequests :
         (Method(req) = Str("terminate") /\ Request(r, req))
           => /\ Len(last'.sent) = 1
              /\ IsSuccess(last'.sent[1])
              /\ last'.sent[1].body.f.result = Null
              /\ last'.req = req
              /\ last'.sid = req.hdr.v
              /\ last'.sid \notin DOMAIN sessions']_vars

\* A terminate on tokA was answered and tokA has no record.
C4_Witness ==
    /\ Answered("terminate")
    /\ IsSuccess(last.sent[1])
    /\ last.sid = "tokA"
    /\ "tokA" \notin DOMAIN sessions

(***************************************************************************)
(* C3.  Whatever happened before on any session, an initialize request is  *)
(* answered with a success result that carries exactly the tool            *)
(* descriptors geocode and places-search and the resolved session          *)
(* identifier, and afterwards the session map holds a record for that      *)
(* identifier with initialized = true.                                     *)
(***************************************************************************)
C3_InitializeMarksSession ==
    [][\A r \in Slots : \A req \in SessionRequests :
         (Method(req) = Str("initialize") /\ Request(r, req))
           => /\ Len(last'.sent) = 1
              /\ IsSuccess(last'.sent[1])
              /\ LET result == last'.sent[1].body.f.result
                     tools == Prop(result, "tools")
                 IN /\ tools.t = "array"
                    /\ Len(tools.s) = 2
                    /\ Prop(tools.s[1], "name") = Str("geocode")
                    /\ Prop(tools.s[2], "name") = Str("places-search")
                    /\ Prop(Prop(result, "session"), "id") = Str(last'.sid)
              /\ last'.sid \in DOMAIN sessions'
              /\ sessions'[last'.sid].initialized]_vars

(***************************************************************************)
(* C8.  The provider call is the only point where a request is suspended.  *)
(* A terminate for session S handled while a callTool for S is suspended   *)
(* removes the record of S and leaves the suspended call in place; when    *)
(* the provider then returns a result, the callTool is answered with its   *)
(* normal success envelope and the session map is left as it is, so the    *)
(* record of S is not created again.                                       *)
(***************************************************************************)
C8_TerminateDuringCall ==
    [][/\ \A r \in Slots : \A out \in SessionOutcomes :
            ProviderReturn(r, out)
              => /\ sessions' = sessions
                 /\ last'.req = inflight[r].req
                 /\ Len(last'.sent) = 1
                 /\ (out.ok /\ Len(out.results) > 0) => IsSuccess(last'.sent[1])
       /\ \A r \in Slots : \A req \in SessionRequests :
            (Method(req) = Str("terminate") /\ Request(r, req))
              => /\ req.hdr.v \notin DOMAIN sessions'
                 /\ \A q \in Slots \ {r} : inflight'[q] = inflight[q]]_vars

\* A geocode call on tokA was answered with success although tokA, resolved
\* when the call started, has no record any more: it was terminated while
\* the call was suspended.
C8_Witness ==
    /\ Answered("callTool")
    /\ ToolName(last.req) = Str("geocode")
    /\ IsSuccess(last.sent[1])
    /\ last.sid = "tokA"
    /\ "tokA" \notin DOMAIN sessions

(***************************************************************************)
(* C10.  The initialized flag has no effect on tool calls and only         *)
(* initialize changes it.  A callTool is dispatched and answered the same  *)
(* way whatever the flag of its session; callTool requests and failing     *)
(* requests leave every existing record as it is and add at most the       *)
(* initialized = false record of their own, unknown, token; a record's     *)
(* flag never goes from true to false, and goes from false to true only    *)
(* in an initialize request on that session.                               *)
(***************************************************************************)
C10_FlagOnlyByInitialize ==
    [][/\ \A r \in Slots : \A req \in SessionRequests :
            (Method(req) \notin {Str("initialize"), Str("terminate")}
               /\ Request(r, req))
              => /\ \A k \in DOMAIN sessions :
                      k \in DOMAIN sessions' /\ sessions'[k] = sessions[k]
                 /\ \A k \in DOMAIN sessions' \ DOMAIN sessions :
                      k = req.hdr.v /\ ~sessions'[k].initialized
                 /\ IF ToolName(req) = Str("geocode")
                    THEN inflight'[r].stage = "awaiting" /\ last' = last
                    ELSE Len(last'.sent) = 1 /\ IsError(last'.sent[1])
       /\ \A r \in Slots : \A out \in SessionOutcomes :
            ProviderReturn(r, out)
              => /\ sessions' = sessions
                 /\ Len(last'.sent) = 1
                 /\ IsSuccess(last'.sent[1]) <=> (out.ok /\ Len(out.results) > 0)
                 /\ ~IsSuccess(last'.sent[1]) => IsError(last'.sent[1])
       /\ \A k \in DOMAIN sessions \cap DOMAIN sessions' :
            /\ sessions[k].initialized => sessions'[k].initialized
            /\ (~sessions[k].initialized /\ sessions'[k].initialized)
                 => \E r \in Slots : \E req \in SessionRequests :
                      /\ Method(req) = Str("initialize")
                      /\ req.hdr.v = k
                      /\ Request(r, req)]_vars

\* A geocode call on an initialized session was answered with success and
\* left the flag set, next to another session that is not initialized.
C10_Witness ==
    /\ Answered("callTool")
    /\ IsSuccess(last.sent[1])
    /\ last.sid = "tokA"
    /\ "tokA" \in DOMAIN sessions
    /\ sessions["tokA"].initialized
    /\ "tokB" \in DOMAIN sessions
    /\ ~sessions["tokB"].initialized

C1_EveryFailureAnswered ==
    (last.done /\ ~(Len(last.sent) = 1 /\ IsSuccess(last.sent[1])))
      => (Len(last.sent) = 1 /\ IsError(last.sent[1]))

(***************************************************************************)
(* C5.  Each request is answered with exactly one envelope; the envelope   *)
(* carries exactly one of result and error, under status 200 exactly when  *)
(* it carries result and under status 500 exactly when it carries error.   *)
(***************************************************************************)
C5_OneEnvelopeOneOutcome ==
    last.done
      => /\ Len(last.sent) = 1
         /\ HasKey(last.sent[1].body, "result") # HasKey(last.sent[1].body, "error")
         /\ last.sent[1].status = 200 <=> HasKey(last.sent[1].body, "result")
         /\ last.sent[1].status = 500 <=> HasKey(last.sent[1].body, "error")

(***************************************************************************)
(* C7.  A places-search call with valid parameters reaches the provider    *)
(* with the supplied location, or { lat: 0, lng: 0 } exactly when none is  *)
(* supplied, and with the supplied radius, or 5000 exactly when none is    *)
(* supplied; the count in the summary "Found N places" is the length of    *)
(* the structured result list.                                             *)
(***************************************************************************)
C7_PlacesDefaults ==
    /\ (inflight[1].stage = "awaiting" /\ inflight[1].call.api = "placesNearby")
         => LET p == Prop(Prop(inflight[1].req.body, "params"), "parameters")
            IN /\ inflight[1].call.location =
                    (IF HasKey(p, "location") THEN p.f.location
                     ELSE Obj([lat |-> Num(0), lng |-> Num(0)]))
               /\ inflight[1].call.radius =
                    (IF HasKey(p, "radius") THEN p.f.radius ELSE Num(5000))
               /\ inflight[1].call.keyword = p.f.query
    /\ (Answered("callTool") /\ ToolName(last.req) = Str("places-search")
          /\ IsSuccess(last.sent[1]))
         => LET content == last.sent[1].body.f.result.f.content.s
            IN /\ Len(content) = 2
               /\ content[1].f.text =
                    Str("Found " \o ToString(Len(content[2].f.data.s)) \o " places")

(***************************************************************************)
(* C6.  On every path the id of the response envelope is the id of the     *)
(* request it answers: the same value when the request has one, null       *)
(* included, and no id when the request has none; with requests            *)
(* interleaved, none is answered with the id of another.                   *)
(***************************************************************************)
C6_IdEchoed ==
    last.done
      => /\ Len(last.sent) = 1
         /\ HasKey(last.sent[1].body, "id") <=> HasKey(last.req.body, "id")
         /\ Prop(last.sent[1].body, "id") = Prop(last.req.body, "id")

\* A geocode call without id was answered with success, without id, while
\* the call that arrived after it, with id 7, was still suspended.
C6_Witness ==
    /\ Answered("callTool")
    /\ ToolName(last.req) = Str("geocode")
    /\ IsSuccess(last.sent[1])
    /\ ~HasKey(last.req.body, "id")
    /\ ~HasKey(last.sent[1].body, "id")
    /\ inflight[1].stage = "free"
    /\ inflight[2].stage = "awaiting"
    /\ Prop(inflight[2].req.body, "id") = Num(7)

(***************************************************************************)
(* C9.  A request suspended on a provider call that is slow, or never      *)
(* returns, does not hold up the others: every request that has arrived    *)
(* is eventually handled, to its response or to its own provider call,     *)
(* with no assumption that any provider call returns.  A request other     *)
(* than a tool call is answered in the step that handles it, and a         *)
(* suspended request stays suspended until its own provider call settles,  *)
(* which is when it is answered, once.                                     *)
(***************************************************************************)
C9_OthersProceed ==
    /\ \A r \in Slots :
         (inflight[r].stage = "arrived") ~> (inflight[r].stage # "arrived")
    /\ [][\A r \in Slots :
            /\ (Run(r) /\ Method(inflight[r].req) # Str("callTool"))
                 => /\ inflight'[r].stage = "free"
                    /\ last'.req = inflight[r].req
                    /\ Len(last'.sent) = 1
            /\ (inflight[r].stage = "awaiting" /\ inflight'[r] # inflight[r])
                 => /\ \E out \in SessionOutcomes : ProviderReturn(r, out)
                    /\ inflight'[r].stage = "free"
                    /\ last'.req = inflight[r].req
                    /\ Len(last'.sent) = 1]_vars

\* While the geocode call on connection 1 is suspended, a terminate that
\* arrived after it was handled and answered: tokA, resolved by the suspended
\* call, has no record.
C9_Witness ==
    /\ inflight[1].stage = "awaiting"
    /\ inflight[2].stage = "free"
    /\ Answered("terminate")
    /\ IsSuccess(last.sent[1])
    /\ "tokA" \notin DOMAIN sessions

====
